---- MODULE Spec2Model ----
(***************************************************************************)
(* Model of watcher.py: a poll loop that fetches one page, looks for       *)
(* keywords, hashes the text windows around the first hit of each keyword  *)
(* and posts a Discord notification when that hash differs from the one    *)
(* remembered in last_digest.                                              *)
(*                                                                         *)
(* A Python str is a sequence of characters; a character is a one-element  *)
(* name ("a", "B", "Idot" for U+0130, "cdot" for U+0307, "NL" for the      *)
(* newline).  Indices of the Python code are 0-based and kept 0-based in   *)
(* find / start / end; only the final slice is shifted to TLA+'s 1-based   *)
(* SubSeq.                                                                 *)
(***************************************************************************)
EXTENDS Integers, Sequences, FiniteSets, TLC

\* ---------------------------------------------------------------- settings

\* src/watcher.py:39
CHECK_INTERVAL_SECONDS == 21600

\* The literal 1000 of src/watcher.py:93 and :94: the window radius.
WINDOW == 1000

\* Python's None.  last_digest is either None or a digest; a digest is a
\* non-empty sequence (see sha256_hexdigest), so the empty sequence is free
\* to stand for None.
None == <<>>

\* ------------------------------------------------------------------ bounds

\* Longest page text of the exhaustively enumerated short pages.
MaxTextLen == 3

\* The long pages put a variable character just outside the window of the
\* keyword hit or up to MaxNear positions further in.
MaxNear == 1

\* Longest text of the short pages of the mixed site.
MaxMixedLen == 2

\* --------------------------------------------------------------- str model

Min(S) == CHOOSE x \in S : \A y \in S : x <= y

Max2(a, b) == IF a >= b THEN a ELSE b

Min2(a, b) == IF a <= b THEN a ELSE b

\* Unicode code points, the order sorted() compares str by.
Ord(c) ==
    CASE c = "NL" -> 10
      [] c = "A" -> 65
      [] c = "B" -> 66
      [] c = "a" -> 97
      [] c = "b" -> 98
      [] c = "i" -> 105
      [] c = "y" -> 121
      [] c = "z" -> 122
      [] c = "Idot" -> 304
      [] c = "cdot" -> 775

\* str.lower() of one character.  U+0130 lowercases to the two characters
\* U+0069 U+0307, so lower() can lengthen a string.
LowerChar(c) ==
    CASE c = "A" -> <<"a">>
      [] c = "B" -> <<"b">>
      [] c = "Idot" -> <<"i", "cdot">>
      [] OTHER -> <<c>>

\* str.lower(): the concatenation of the characters' lowercasings.
RECURSIVE lower(_)
lower(s) ==
    LET wide == {i \in 1..Len(s) : Len(LowerChar(s[i])) > 1}
    IN  IF wide = {}
        THEN [i \in 1..Len(s) |-> LowerChar(s[i])[1]]
        ELSE LET p == Min(wide)
             IN  [i \in 1..(p - 1) |-> LowerChar(s[i])[1]]
                 \o LowerChar(s[p])
                 \o lower(SubSeq(s, p + 1, Len(s)))

\* str.find(sub): the lowest 0-based index where sub starts, or -1.
find(s, sub) ==
    LET hits == {i \in 0..(Len(s) - Len(sub)) :
                    /\ Len(sub) > 0 => s[i + 1] = sub[1]
                    /\ SubSeq(s, i + 1, i + Len(sub)) = sub}
    IN  IF hits = {} THEN -1 ELSE Min(hits)

\* Python's `sub in s` for str.
StrContains(sub, s) == find(s, sub) # -1

\* s[start:end] for 0 <= start, end <= len(s).
Slice(s, start, end) == SubSeq(s, start + 1, end)

\* s < t in Python's str order: code point by code point, a proper prefix first.
StrLess(s, t) ==
    \E k \in 1..(Len(t)) :
        /\ \A j \in 1..(k - 1) : j <= Len(s) /\ s[j] = t[j]
        /\ \/ k = Len(s) + 1
           \/ k <= Len(s) /\ Ord(s[k]) < Ord(t[k])

\* The orders in which iterating a Python set of str can yield its members:
\* the language fixes none, so every enumeration is possible.
set_iter(S) ==
    {q \in [1..Cardinality(S) -> S] : \A x \in S : \E i \in DOMAIN q : q[i] = x}

\* Variant of sorted that returns the items in the order they arrive.
sorted_AsGiven(xs) == xs

\* sorted(xs) for the str items xs of an iterable, in the order it yields
\* them.  The sort is stable: the item at place i of the result is the one
\* with i - 1 items before it, counting the smaller items and the equal
\* items that arrived earlier.
sorted(xs) ==
    [i \in 1..Len(xs) |->
        xs[CHOOSE j \in 1..Len(xs) :
              Cardinality({k \in 1..Len(xs) :
                              \/ StrLess(xs[k], xs[j])
                              \/ xs[k] = xs[j] /\ k < j}) = i - 1]]

\* sep.join(parts)
RECURSIVE join(_, _)
join(sep, parts) ==
    IF parts = <<>> THEN <<>>
    ELSE IF Len(parts) = 1 THEN parts[1]
    ELSE parts[1] \o sep \o join(sep, Tail(parts))

\* hashlib.sha256(data).hexdigest().  SHA-256 is not computed; it is taken
\* as a collision-free function of its input, tagged so that a digest is
\* never the input itself and never None.
sha256_hexdigest(data) == <<"sha256">> \o data

\* ------------------------------------------------------------ find_matches

\* Variant of find_matches that forgets kw.lower().
find_matches_RawKeyword(txt, keywords) ==
    LET text_lower == lower(txt)
    IN  {kw \in keywords : StrContains(kw, text_lower)}

\* src/watcher.py:76-79
find_matches(txt, keywords) ==
    LET text_lower == lower(txt)
    IN  {kw \in keywords : StrContains(lower(kw), text_lower)}

\* ----------------------------------------------------------- hash_relevant

\* Variant of window that ends with the hit instead of after it.
window_ToHit(text_lower, kw_l) ==
    LET idx == find(text_lower, kw_l)
        start == Max2(0, idx - WINDOW)
        end == Min2(Len(text_lower), idx + Len(kw_l))
    IN  Slice(text_lower, start, end)

\* Variant of window that starts one character earlier.
window_OneEarlier(text_lower, kw_l) ==
    LET idx == find(text_lower, kw_l)
        start == Max2(0, idx - WINDOW - 1)
        end == Min2(Len(text_lower), idx + Len(kw_l) + WINDOW)
    IN  Slice(text_lower, start, end)

\* src/watcher.py:92-95: the window around the first hit of kw_l.
window(text_lower, kw_l) ==
    LET idx == find(text_lower, kw_l)
        start == Max2(0, idx - WINDOW)
        end == Min2(Len(text_lower), idx + Len(kw_l) + WINDOW)
    IN  Slice(text_lower, start, end)

\* Variant of the loop body without the `if kw_l in text_lower` test.
RECURSIVE parts_of_NoTest(_, _)
parts_of_NoTest(text_lower, kws) ==
    IF kws = <<>> THEN <<>>
    ELSE LET kw_l == lower(Head(kws))
         IN  <<kw_l, window(text_lower, kw_l)>>
             \o parts_of_NoTest(text_lower, Tail(kws))

\* src/watcher.py:86-95: the loop body, over the keywords in sorted order.
RECURSIVE parts_of(_, _)
parts_of(text_lower, kws) ==
    IF kws = <<>> THEN <<>>
    ELSE LET kw_l == lower(Head(kws))
             rest == parts_of(text_lower, Tail(kws))
         IN  IF StrContains(kw_l, text_lower)
             THEN <<kw_l, window(text_lower, kw_l)>> \o rest
             ELSE rest

\* src/watcher.py:82-97.  keywords is the set argument as the order in which
\* iterating it yields its members.
hash_relevant(txt, keywords) ==
    LET text_lower == lower(txt)
        parts == parts_of(text_lower, sorted(keywords))
    IN  sha256_hexdigest(join(<<"NL">>, parts))

\* ------------------------------------------------------------- environment

\* Values of the DISCORD_WEBHOOK_URL environment variable as os.getenv
\* returns them (src/watcher.py:48): unset, set to the empty string, set.
WebhookValues == {"<None>", "", "https://discord.com/api/webhooks/xxx/yyy"}

\* Variant of the startup test that only rejects None.
truthy_IsNotNone(u) == u # "<None>"

\* Python truthiness of WEBHOOK_URL: None and "" are falsy.
truthy(u) == u # "<None>" /\ u # ""

\* Configurations of KEYWORDS (src/watcher.py:32-37), as sets of str: one
\* mixed-case phrase; two one-letter words; a word only U+0130 can match
\* next to a phrase.
KeywordChoices ==
    { {<<"a", "B">>},
      {<<"a">>, <<"B">>},
      {<<"i">>, <<"a", "B">>} }

\* Characters of the short pages.
ShortAlphabet == {"a", "B", "Idot"}

\* Every text of at most MaxTextLen characters over ShortAlphabet.
ShortPages == UNION {[1..n -> ShortAlphabet] : n \in 0..MaxTextLen}

\* Three pages that between them match none, one or both keywords of every
\* configuration.
SamplePages == {<<"a">>, <<"a", "B">>, <<"B", "Idot">>}

Pad(c, n) == [i \in 1..n |-> c]

\* Pages longer than a window: one character c1, a gap of g1, the phrase
\* "aB", a gap of g2, and an optional tail character.  A gap of WINDOW puts
\* c1 (or the tail) one position outside the window of "aB", a shorter gap
\* inside it.
LongPage(c1, g1, g2, tl) ==
    <<c1>> \o Pad("z", g1) \o <<"a", "B">> \o Pad("z", g2) \o tl

Gaps == (WINDOW - MaxNear)..WINDOW

\* The long pages vary the text before the phrase, the text after it, or
\* (just outside the window) both.
LongPages ==
    {LongPage(c1, g1, WINDOW, <<>>) : c1 \in {"z", "y"}, g1 \in Gaps}
    \cup {LongPage("z", WINDOW, g2, tl) : g2 \in Gaps, tl \in {<<>>, <<"z">>, <<"i">>}}
    \cup {LongPage("y", WINDOW, WINDOW, tl) : tl \in {<<"z">>, <<"i">>}}

\* Characters of the short pages of the mixed site: "b" and "B" differ only
\* in case, "Idot" lowercases to two characters.
MixedAlphabet == {"a", "b", "B", "Idot"}

\* Two pages of one length that differ in the single character before the
\* first "a": a run of "z" followed by a run of "a", the border one place
\* apart.  The window of "a" stops short of both ends of the first page and
\* begins at the start of the second.
PeriodicPages ==
    {Pad("z", WINDOW + 1) \o Pad("a", WINDOW + 2),
     Pad("z", WINDOW) \o Pad("a", WINDOW + 3)}

\* The mixed site: every text of at most MaxMixedLen characters over
\* MixedAlphabet, and the two periodic pages.
MixedPages ==
    UNION {[1..n -> MixedAlphabet] : n \in 0..MaxMixedLen} \cup PeriodicPages

\* ------------------------------------------------------------------- state

VARIABLES
    WEBHOOK_URL,        \* module global, src/watcher.py:48
    KEYWORDS,           \* module global, src/watcher.py:32 (as a set)
    site,               \* which pages the site may serve (environment)
    pc,                 \* position of main()
    keywords_set,       \* local of main, line 131
    last_digest,        \* local of main, line 132
    text,               \* local of main, line 137
    matches,            \* local of main, line 138
    digest,             \* local of main, line 140
    response,           \* outcome of requests.post in this cycle
    trace,              \* history: outbound events of the current cycle
    slept,              \* history: argument of the last time.sleep
    digest_at_start,    \* history: last_digest when the cycle began
    branch,             \* history: branch taken by the cycle
    raised,             \* history: the cycle reached the except clause
    fetched,            \* history: the cycle's fetch returned a text
    notified_with,      \* history: matches argument of the notifier call
    last_notified_text, \* history: text of the last cycle whose notifier call
                        \* returned (empty until then)
    returned_digest,    \* history: digest of the last cycle whose notifier
                        \* call returned (None until then)
    intervened          \* history: since that cycle, a cycle has ended
                        \* without a match or in the except clause

vars ==
    <<WEBHOOK_URL, KEYWORDS, site, pc, keywords_set, last_digest, text,
      matches, digest, response, trace, slept, digest_at_start, branch,
      raised, fetched, notified_with, last_notified_text, returned_digest,
      intervened>>

config == <<WEBHOOK_URL, KEYWORDS, site>>

\* The texts fetch_page_text can return.
Pages ==
    CASE site = "short" -> ShortPages
      [] site = "long" -> LongPages
      [] site = "sample" -> SamplePages
      [] site = "mixed" -> MixedPages

\* Appends an outbound event to the current cycle's trace; the first event
\* after a sleep opens the next cycle's trace.
Emit(e) ==
    IF trace # <<>> /\ trace[Len(trace)] = "sleep"
    THEN <<e>>
    ELSE Append(trace, e)

\* Module load (lines 29-52) with the locals of main not yet bound.
InitWith(s) ==
    /\ WEBHOOK_URL \in WebhookValues
    /\ KEYWORDS \in KeywordChoices
    /\ site = s
    /\ pc = "main"
    /\ keywords_set = {}
    /\ last_digest = None
    /\ text = <<>>
    /\ matches = {}
    /\ digest = None
    /\ response = "none"
    /\ trace = <<>>
    /\ slept = 0
    /\ digest_at_start = None
    /\ branch = "none"
    /\ raised = FALSE
    /\ fetched = FALSE
    /\ notified_with = {}
    /\ last_notified_text = <<>>
    /\ returned_digest = None
    /\ intervened = FALSE

Init == InitWith("short")

InitLong == InitWith("long")

InitSample == InitWith("sample")

InitMixed == InitWith("mixed")

\* ----------------------------------------------------------------- actions

\* Lines 127-129: the webhook is not configured; log and return.
MainAbort ==
    /\ pc = "main"
    /\ ~truthy(WEBHOOK_URL)
    /\ pc' = "returned"
    /\ UNCHANGED <<config, keywords_set, last_digest, text, matches, digest,
                   response, trace, slept, digest_at_start, branch, raised, fetched,
                   notified_with, last_notified_text,
                   returned_digest, intervened>>

\* Lines 127-135: the webhook is configured; bind the locals, enter the loop.
MainStart ==
    /\ pc = "main"
    /\ truthy(WEBHOOK_URL)
    /\ keywords_set' = KEYWORDS
    /\ last_digest' = None
    /\ pc' = "loop"
    /\ UNCHANGED <<config, text, matches, digest, response, trace, slept,
                   digest_at_start, branch, raised, fetched, notified_with,
                   last_notified_text,
                   returned_digest, intervened>>

\* History bookkeeping shared by the two outcomes of the fetch.
BeginCycle ==
    /\ trace' = Emit("fetch")
    /\ digest_at_start' = last_digest

\* Line 137, fetch_page_text returns (lines 55-73): the site serves t.
FetchOk ==
    /\ pc = "loop"
    /\ \E t \in Pages : text' = t
    /\ fetched' = TRUE
    /\ BeginCycle
    /\ pc' = "match"
    /\ UNCHANGED <<config, keywords_set, last_digest, matches, digest,
                   response, slept, branch, raised, notified_with,
                   last_notified_text,
                   returned_digest, intervened>>

\* Line 137, fetch_page_text raises: requests.get fails or times out
\* (line 60), raise_for_status sees a non-2xx status (line 61), or the
\* parser fails (line 62).  text keeps its previous binding.
FetchRaise ==
    /\ pc = "loop"
    /\ fetched' = FALSE
    /\ BeginCycle
    /\ pc' = "except"
    /\ UNCHANGED <<config, keywords_set, last_digest, text, matches, digest,
                   response, slept, branch, raised, notified_with,
                   last_notified_text,
                   returned_digest, intervened>>

\* Variant of Match without the `if matches:` test.
Match_NoEmptyTest ==
    /\ pc = "match"
    /\ matches' = find_matches(text, keywords_set)
    /\ pc' = "hash"
    /\ UNCHANGED <<config, keywords_set, last_digest, text, digest, response,
                   trace, slept, digest_at_start, branch, raised, fetched,
                   notified_with, last_notified_text,
                   returned_digest, intervened>>

\* Variant of Match whose no-match branch forgets the remembered digest.
Match_NoMatchResets ==
    /\ pc = "match"
    /\ matches' = find_matches(text, keywords_set)
    /\ IF matches' # {}
       THEN /\ pc' = "hash"
            /\ branch' = branch
            /\ intervened' = intervened
            /\ last_digest' = last_digest
       ELSE /\ pc' = "sleep"
            /\ branch' = "NO_MATCH"
            /\ intervened' = (returned_digest # None)
            /\ last_digest' = None
    /\ UNCHANGED <<config, keywords_set, text, digest, response, trace, slept,
                   digest_at_start, raised, fetched, notified_with,
                   last_notified_text, returned_digest>>

\* Lines 138-139 and 147-148: find_matches, then the branch on its result.
Match ==
    /\ pc = "match"
    /\ matches' = find_matches(text, keywords_set)
    /\ IF matches' # {}
       THEN pc' = "hash" /\ branch' = branch /\ intervened' = intervened
       ELSE /\ pc' = "sleep"
            /\ branch' = "NO_MATCH"
            /\ intervened' = (returned_digest # None)
    /\ UNCHANGED <<config, keywords_set, last_digest, text, digest, response,
                   trace, slept, digest_at_start, raised, fetched, notified_with,
                   last_notified_text,
                   returned_digest>>

\* Line 140: hash_relevant over the full keyword set, iterated in some order.
Hash ==
    /\ pc = "hash"
    /\ \E q \in set_iter(keywords_set) : digest' = hash_relevant(text, q)
    /\ pc' = "compare"
    /\ UNCHANGED <<config, keywords_set, last_digest, text, matches, response,
                   trace, slept, digest_at_start, branch, raised, fetched,
                   notified_with, last_notified_text,
                   returned_digest, intervened>>

\* Variant of Compare that notifies whatever last_digest is.
Compare_AlwaysNotify ==
    /\ pc = "compare"
    /\ pc' = "notify"
    /\ branch' = "NOTIFY"
    /\ UNCHANGED <<config, keywords_set, last_digest, text, matches, digest,
                   response, trace, slept, digest_at_start, raised, fetched,
                   notified_with, last_notified_text,
                   returned_digest, intervened>>

\* Lines 141-142 and 145-146: the comparison with last_digest.
Compare ==
    /\ pc = "compare"
    /\ IF digest # last_digest
       THEN pc' = "notify" /\ branch' = "NOTIFY"
       ELSE pc' = "sleep" /\ branch' = "SKIP"
    /\ UNCHANGED <<config, keywords_set, last_digest, text, matches, digest,
                   response, trace, slept, digest_at_start, raised, fetched,
                   notified_with, last_notified_text,
                   returned_digest, intervened>>

\* An exception inside find_matches or hash_relevant (lines 138, 140), such
\* as MemoryError: control leaves the try body.
StepRaise ==
    /\ pc \in {"match", "hash"}
    /\ pc' = "except"
    /\ UNCHANGED <<config, keywords_set, last_digest, text, matches, digest,
                   response, trace, slept, digest_at_start, branch, raised, fetched,
                   notified_with, last_notified_text,
                   returned_digest, intervened>>

\* Line 143, send_discord_notification returns (lines 118-123): the POST got
\* a response.  A 2xx status is logged as sent; any other status raises
\* HTTPError inside the function, which catches it, logs it and returns.
PostReturns ==
    /\ pc = "notify"
    /\ \E status \in {"ok", "http_error"} : response' = status
    /\ trace' = Emit("post")
    /\ notified_with' = matches
    /\ returned_digest' = digest
    /\ intervened' = FALSE
    /\ pc' = "assign"
    /\ UNCHANGED <<config, keywords_set, last_digest, text, matches, digest,
                   slept, digest_at_start, branch, raised, fetched, last_notified_text>>

\* Variant of PostRaise with line 144 moved before line 143.
PostRaise_AssignedFirst ==
    /\ pc = "notify"
    /\ last_digest' = digest
    /\ response' = "raise"
    /\ trace' = Emit("post")
    /\ notified_with' = matches
    /\ pc' = "except"
    /\ UNCHANGED <<config, keywords_set, text, matches, digest, slept,
                   digest_at_start, branch, raised, fetched,
                   last_notified_text,
                   returned_digest, intervened>>

\* Line 143, requests.post raises (line 118, outside the function's try):
\* timeout or connection error.  The exception leaves main's try body.
PostRaise ==
    /\ pc = "notify"
    /\ response' = "raise"
    /\ trace' = Emit("post")
    /\ notified_with' = matches
    /\ pc' = "except"
    /\ UNCHANGED <<config, keywords_set, last_digest, text, matches, digest,
                   slept, digest_at_start, branch, raised, fetched, last_notified_text,
                   returned_digest, intervened>>

\* Variant of Assign that forgets to store the digest.
Assign_NotStored ==
    /\ pc = "assign"
    /\ last_notified_text' = text
    /\ pc' = "sleep"
    /\ UNCHANGED <<config, keywords_set, last_digest, text, matches, digest,
                   response, trace, slept, digest_at_start, branch, raised,
                   fetched, notified_with,
                   returned_digest, intervened>>

\* Line 144: last_digest = digest.
Assign ==
    /\ pc = "assign"
    /\ last_digest' = digest
    /\ last_notified_text' = text
    /\ pc' = "sleep"
    /\ UNCHANGED <<config, keywords_set, text, matches, digest, response,
                   trace, slept, digest_at_start, branch, raised, fetched,
                   notified_with,
                   returned_digest, intervened>>

\* Variant of Except that logs and re-raises: main ends.
Except_Reraises ==
    /\ pc = "except"
    /\ raised' = TRUE
    /\ intervened' = (returned_digest # None)
    /\ pc' = "returned"
    /\ UNCHANGED <<config, keywords_set, last_digest, text, matches, digest,
                   response, trace, slept, digest_at_start, branch, fetched,
                   notified_with, last_notified_text,
                   returned_digest>>

\* Variant of Except that continues with the next iteration at once.
Except_Continue ==
    /\ pc = "except"
    /\ raised' = TRUE
    /\ intervened' = (returned_digest # None)
    /\ pc' = "loop"
    /\ UNCHANGED <<config, keywords_set, last_digest, text, matches, digest,
                   response, trace, slept, digest_at_start, branch, fetched,
                   notified_with, last_notified_text,
                   returned_digest>>

\* Variant of Except whose handler also clears the remembered digest.
Except_ResetsDigest ==
    /\ pc = "except"
    /\ raised' = TRUE
    /\ intervened' = (returned_digest # None)
    /\ last_digest' = None
    /\ pc' = "sleep"
    /\ UNCHANGED <<config, fetched, keywords_set, text, matches, digest,
                   response, trace, slept, digest_at_start, branch,
                   notified_with, last_notified_text, returned_digest>>

\* Lines 149-150: except Exception: log, fall through to the sleep.
Except ==
    /\ pc = "except"
    /\ raised' = TRUE
    /\ intervened' = (returned_digest # None)
    /\ pc' = "sleep"
    /\ UNCHANGED <<config, fetched, keywords_set, last_digest, text, matches, digest,
                   response, trace, slept, digest_at_start, branch,
                   notified_with, last_notified_text,
                   returned_digest>>

\* Line 152: time.sleep(CHECK_INTERVAL_SECONDS), then the next iteration.
\* matches and digest are rebound before they are read again; the model
\* drops their stale values here, and closes the cycle's history.
Sleep ==
    /\ pc = "sleep"
    /\ slept' = CHECK_INTERVAL_SECONDS
    /\ trace' = Emit("sleep")
    /\ matches' = {}
    /\ digest' = None
    /\ digest_at_start' = last_digest
    /\ branch' = "none"
    /\ raised' = FALSE
    /\ notified_with' = {}
    /\ response' = "none"
    /\ fetched' = FALSE
    /\ pc' = "loop"
    /\ UNCHANGED <<config, keywords_set, last_digest, text, last_notified_text,
                   returned_digest, intervened>>

Next ==
    \/ MainAbort
    \/ MainStart
    \/ FetchOk
    \/ FetchRaise
    \/ Match
    \/ Hash
    \/ Compare
    \/ StepRaise
    \/ PostReturns
    \/ PostRaise
    \/ Assign
    \/ Except
    \/ Sleep

Spec == Init /\ [][Next]_vars

\* The same program against a site that serves the long pages.
SpecLong == InitLong /\ [][Next]_vars

\* The same program on the mixed site: short pages with case-only variants
\* next to two pages longer than a window.
SpecMixed == InitMixed /\ [][Next]_vars

\* main is one thread whose blocking calls all end: requests.get and
\* requests.post carry timeout=REQUEST_TIMEOUT (lines 60, 118) and
\* time.sleep is finite (line 152).  So a step that can be taken is taken.
FairSpec == InitSample /\ [][Next]_vars /\ WF_vars(Next)

\* ------------------------------------------------------------------ claims

\* The cycle has attempted the notification POST.
Posted == \E i \in 1..Len(trace) : trace[i] = "post"

\* sub starts at 0-based index i of s, character by character.
Occurs(sub, s, i) ==
    /\ i + Len(sub) <= Len(s)
    /\ \A j \in 1..Len(sub) : s[i + j] = sub[j]

\* Every index at which sub occurs in s (the first character is tested
\* first, which only saves work).
Occurrences(s, sub) ==
    {i \in 0..(Len(s) - Len(sub)) :
        /\ Len(sub) > 0 => s[i + 1] = sub[1]
        /\ Occurs(sub, s, i)}

\* C1 (as claimed): a cycle whose POST got a non-success response leaves
\* last_digest as it was when the cycle began (so that the next cycle with
\* the same text compares against the old value and notifies again).
C1_HttpErrorKeepsLastDigest ==
    (pc = "sleep" /\ response = "http_error") => last_digest = digest_at_start

\* C2: a cycle that fetches the very text of the cycle that last notified
\* (its notifier call returned) computes the stored fingerprint and never
\* reaches the notifier: it is a SKIP, and the same content is not notified
\* twice.  (No cycle notifies for the empty text, which is also the value
\* of last_notified_text before the first notification.)
C2_SameContentNotifiedOnce ==
    (/\ pc \in {"match", "hash", "compare", "notify", "assign"}
     /\ text # <<>>
     /\ text = last_notified_text) =>
        /\ pc \notin {"notify", "assign"}
        /\ branch = "none"
        /\ response = "none"
        /\ ~Posted
        /\ notified_with = {}
        /\ (pc = "compare" => digest = last_digest)

C2_Witness ==
    /\ pc = "sleep"
    /\ fetched
    /\ text = last_notified_text
    /\ branch = "SKIP"
    /\ ~Posted

\* C3: a cycle in which a step raised (the fetch, the matching, the
\* fingerprinting or the POST) reaches the except clause of main and ends
\* with last_digest equal to its value when the cycle began.
C3_RaisingCycleKeepsLastDigest ==
    /\ pc = "except" => last_digest = digest_at_start
    /\ raised => (last_digest = digest_at_start /\ pc = "sleep")

C3_Witness ==
    /\ pc = "sleep"
    /\ raised
    /\ response = "raise"
    /\ digest # None
    /\ digest # last_digest

InLoop == {"loop", "match", "hash", "compare", "notify", "assign", "except", "sleep"}

\* C4: once the loop is entered, every cycle reaches the sleep whatever its
\* outcome, and a further fetch always follows: fetches happen infinitely
\* often.
C4_LoopNeverTerminates ==
    /\ [](pc \in InLoop => <>(pc = "sleep"))
    /\ WEBHOOK_URL \notin {"<None>", ""} => []<><<FetchOk \/ FetchRaise>>_vars

C4_Witness ==
    /\ pc = "loop"
    /\ trace = <<"fetch", "sleep">>
    /\ last_digest # None

\* C5: with the webhook not configured, main returns without entering the
\* loop: no fetch, no notification and no sleep ever happens.
C5_NoWebhookNoLoop ==
    WEBHOOK_URL \in {"<None>", ""} =>
        /\ pc \in {"main", "returned"}
        /\ trace = <<>>
        /\ response = "none"
        /\ slept = 0
        /\ ~fetched

C5_Witness == pc = "returned" /\ WEBHOOK_URL = ""

AfterCompare == {"notify", "assign", "except", "sleep"}

\* C6: in a cycle with a non-empty MatchSet whose fingerprint was computed,
\* the notifier is called if and only if the fingerprint differs from
\* last_digest; with last_digest = None it is always called; with an equal
\* fingerprint the cycle is a SKIP and nothing is sent.
C6_NotifyIffFingerprintDiffers ==
    /\ pc = "notify" => (matches # {} /\ digest # last_digest)
    /\ (pc \in AfterCompare /\ matches # {} /\ digest # None) =>
        /\ branch \in {"NOTIFY", "SKIP"}
        /\ branch = "NOTIFY" <=> digest # digest_at_start
        /\ (pc # "notify") => (Posted <=> branch = "NOTIFY")
        /\ digest_at_start = None => branch = "NOTIFY"
        /\ branch = "SKIP" => (response = "none" /\ notified_with = {})

C6_Witness ==
    /\ pc = "assign"
    /\ branch = "NOTIFY"
    /\ digest_at_start # None
    /\ Posted

\* No keyword of K is a case-insensitive substring of txt.
NoKeywordIn(txt, K) ==
    \A kw \in K : Occurrences(lower(txt), lower(kw)) = {}

\* C7: a cycle whose fetched text contains no configured keyword is a
\* NO_MATCH: no fingerprint is computed or compared, no notification is
\* attempted and last_digest is unchanged; the notifier is only ever called
\* with a non-empty MatchSet.
C7_NoMatchDoesNothing ==
    /\ (fetched /\ pc \in InLoop \ {"loop", "match"} /\ NoKeywordIn(text, keywords_set)) =>
        /\ pc \in {"except", "sleep"}
        /\ (pc = "sleep" /\ ~raised) => branch = "NO_MATCH"
        /\ matches = {}
        /\ digest = None
        /\ ~Posted
        /\ response = "none"
        /\ last_digest = digest_at_start
    /\ branch = "NO_MATCH" => (fetched /\ NoKeywordIn(text, keywords_set))
    /\ pc = "notify" => matches # {}
    /\ (Posted /\ pc # "loop") => notified_with # {}

C7_Witness ==
    /\ pc = "sleep"
    /\ branch = "NO_MATCH"
    /\ text # <<>>
    /\ last_digest # None

Fetch1 == <<"fetch">>

\* C8: each cycle makes, in this order, exactly one fetch attempt, at most
\* one notification attempt and exactly one sleep of
\* CHECK_INTERVAL_SECONDS; the sleep follows every outcome and the next
\* fetch comes only after it.
C8_OneFetchOnePostOneSleep ==
    /\ trace \in {<<>>, Fetch1, <<"fetch", "post">>, <<"fetch", "sleep">>,
                  <<"fetch", "post", "sleep">>}
    /\ pc \in {"main", "returned"} => trace = <<>>
    /\ pc = "loop" => (trace = <<>> \/ trace[Len(trace)] = "sleep")
    /\ pc \in InLoop \ {"loop"} => (trace # <<>> /\ trace[Len(trace)] # "sleep")
    /\ pc \in {"match", "hash", "compare", "notify"} => trace = Fetch1
    /\ (trace # <<>> /\ trace[Len(trace)] = "sleep") => slept = CHECK_INTERVAL_SECONDS
    /\ slept \in {0, CHECK_INTERVAL_SECONDS}

C8_Witness ==
    /\ pc = "loop"
    /\ trace = <<"fetch", "post", "sleep">>
    /\ last_digest = None

\* C9: find_matches(T, K) is a subset of K, and kw is in it exactly when
\* lower(kw) occurs somewhere in lower(T), whatever surrounds it.
C9_MatchesAreSubstringHits ==
    (pc \in {"hash", "compare", "notify", "assign"} \/ branch = "NO_MATCH") =>
        /\ matches \subseteq keywords_set
        /\ \A kw \in keywords_set :
              kw \in matches <=> Occurrences(lower(text), lower(kw)) # {}

C9_Witness ==
    /\ pc = "hash"
    /\ \E kw \in matches :
        /\ lower(kw) # kw
        /\ Len(lower(text)) > Len(lower(kw))
        /\ keywords_set \ matches # {}

\* The 0-based positions at which s and t differ, a position present in
\* only one of them included.
DiffPositions(s, t) ==
    {p \in 0..(Max2(Len(s), Len(t)) - 1) :
        p >= Len(s) \/ p >= Len(t) \/ s[p + 1] # t[p + 1]}

\* s and t (lowercased texts) differ only at positions more than WINDOW
\* characters away from every occurrence of every keyword in either text,
\* so that no occurrence is created, destroyed or shifted.
FarFromKeywords(s, t, K) ==
    LET D == DiffPositions(s, t)
    IN  \A kw \in K :
            LET kw_l == lower(kw)
            IN  \A i \in Occurrences(s, kw_l) \cup Occurrences(t, kw_l) :
                    \A p \in D :
                        p < i - WINDOW \/ p > i + Len(kw_l) - 1 + WINDOW

\* C10: when the fetched text differs from the last notified text only at
\* positions more than WINDOW characters away from every keyword
\* occurrence, hash_relevant gives the remembered digest and the cycle
\* takes SKIP.  Stated by contraposition: a digest that differs from the
\* remembered one, and a cycle on its way to the notifier, come from a text
\* that is not such a far change.
C10_FarChangeSameDigest ==
    (pc \in {"compare", "notify", "assign"} /\ last_digest # None) =>
        \/ pc = "compare" /\ digest = last_digest
        \/ ~FarFromKeywords(lower(last_notified_text), lower(text), keywords_set)

C10_Witness ==
    /\ pc = "sleep"
    /\ branch = "SKIP"
    /\ lower(last_notified_text) # lower(text)
    /\ FarFromKeywords(lower(last_notified_text), lower(text), keywords_set)

\* The 0-based index in lower(s) where the lowercasing of the character at
\* the 0-based index p of s begins.
LowerPos(s, p) == Len(lower(SubSeq(s, 1, p)))

\* t is s with one character changed, and that character is the one just
\* before or just after the first occurrence of kw (found as the code finds
\* it, lowercased in the lowercased text).
AdjacentChange(s, t, kw) ==
    /\ Len(s) = Len(t)
    /\ StrContains(lower(kw), lower(s))
    /\ \E p \in 0..(Len(s) - 1) :
          /\ \A r \in 0..(Len(s) - 1) : (s[r + 1] # t[r + 1]) <=> (r = p)
          /\ LET idx == find(lower(s), lower(kw))
                 at == LowerPos(s, p)
             IN  \/ at + Len(LowerChar(s[p + 1])) = idx
                 \/ at = idx + Len(lower(kw))

\* The first occurrence of kw is at the same index of both lowercased texts.
SameFirstHit(s, t, kw) ==
    find(lower(s), lower(kw)) = find(lower(t), lower(kw))

Ranked(M, n) ==
    CHOOSE kw \in M : Cardinality({k \in M : StrLess(k, kw)}) = n

\* The fragments C12 describes for a text and its matched keywords: the
\* keywords in ascending order, each as its lowercasing followed by its
\* window.
FragmentsInOrder(txt, M) ==
    [i \in 1..(2 * Cardinality(M)) |->
        LET kw_l == lower(Ranked(M, (i - 1) \div 2))
        IN  IF i % 2 = 1 THEN kw_l ELSE window(lower(txt), kw_l)]

\* C12: the digest of a cycle is the hash of the fragments of (text,
\* matches) taken in ascending keyword order, each keyword's lowercasing
\* followed by its window, whatever the order in which the keyword set was
\* iterated; it is a function of the text and the matched set alone.
C12_DigestOfSortedFragments ==
    pc = "compare"
    => digest = sha256_hexdigest(join(<<"NL">>, FragmentsInOrder(text, matches)))

\* A cycle has hashed a text in which two keywords match, so that the
\* iteration order of the set could show.
C12_Witness ==
    /\ pc = "compare"
    /\ Cardinality(matches) = 2
    /\ digest # None

\* idx of C13: where the code finds the keyword, lowercased, in text_lower.
FirstHit(txt, kw) == find(lower(txt), lower(kw))

\* start of C13.
WindowStart(txt, kw) == Max2(0, FirstHit(txt, kw) - WINDOW)

\* end of C13 as stated, from the lengths of the text and of the keyword.
WindowEndOfText(txt, kw) ==
    Min2(Len(txt), FirstHit(txt, kw) + Len(kw) + WINDOW)

\* end from the lengths of the lowercased text and keyword.
WindowEndOfLower(txt, kw) ==
    Min2(Len(lower(txt)), FirstHit(txt, kw) + Len(lower(kw)) + WINDOW)

\* The digest of the matched keywords in ascending order when the window of
\* kw is text_lower[WindowStart : End(txt, kw)].
DigestOfWindows(txt, M, End(_, _)) ==
    sha256_hexdigest(join(<<"NL">>,
        [i \in 1..(2 * Cardinality(M)) |->
            LET kw == Ranked(M, (i - 1) \div 2)
            IN  IF i % 2 = 1
                THEN lower(kw)
                ELSE Slice(lower(txt), WindowStart(txt, kw), End(txt, kw))]))

\* The range start..end lies within the text of length n, holds the whole
\* occurrence of a keyword of length k at idx, and reaches at most WINDOW
\* characters before and after it.
WindowShape(start, end, idx, k, n) ==
    /\ 0 <= start /\ start <= idx
    /\ idx + k <= end /\ end <= n
    /\ idx - start <= WINDOW
    /\ end - (idx + k) <= WINDOW

\* C13 as stated: the digest is the hash of the windows
\* text_lower[start:end] with start = max(0, idx - 1000) and
\* end = min(len(text), idx + len(keyword) + 1000), and each such range is
\* within the text, holds the keyword occurrence and reaches at most 1000
\* characters to either side.
C13_WindowOfTextLength ==
    pc = "compare"
    => /\ digest = DigestOfWindows(text, matches, WindowEndOfText)
       /\ \A kw \in matches :
             WindowShape(WindowStart(text, kw), WindowEndOfText(text, kw),
                         FirstHit(text, kw), Len(kw), Len(text))

\* C13, amended: the same with end = min(len(text_lower),
\* idx + len(kw_l) + 1000), the bounds being those of the lowercased text.
C13_WindowOfLowerLength ==
    pc = "compare"
    => /\ digest = DigestOfWindows(text, matches, WindowEndOfLower)
       /\ \A kw \in matches :
             /\ WindowShape(WindowStart(text, kw), WindowEndOfLower(text, kw),
                            FirstHit(text, kw), Len(lower(kw)), Len(lower(text)))
             /\ Slice(lower(text), FirstHit(text, kw),
                      FirstHit(text, kw) + Len(lower(kw))) = lower(kw)

\* A cycle has hashed a window that begins after the start of the text and
\* stops before its end.
C13_Witness ==
    /\ pc = "compare"
    /\ \E kw \in matches :
          /\ WindowStart(text, kw) > 0
          /\ WindowEndOfLower(text, kw) < Len(lower(text))

\* C14: last_digest is None until a notifier call has returned, and from
\* then on the digest of the most recent cycle whose notifier call returned
\* (whatever the HTTP status); between that return and line 144 it still
\* holds the value it had when the cycle began.  Nothing else writes it.
C14_LastDigestIsLastReturned ==
    /\ pc # "assign" => last_digest = returned_digest
    /\ pc = "assign" => (last_digest = digest_at_start /\ returned_digest = digest)

\* A cycle whose notifier call raised has ended after an earlier cycle whose
\* call returned: last_digest is still the earlier cycle's digest.
C14_Witness ==
    /\ pc = "sleep"
    /\ response = "raise"
    /\ returned_digest # None
    /\ last_digest = returned_digest
    /\ digest # returned_digest

\* C15: the digest main computes from the full keyword set is the digest
\* hash_relevant gives for the matched keywords alone, in whatever order
\* that set is iterated.
C15_FullSetHashesAsMatchSet ==
    pc = "compare"
    => \A q \in set_iter(matches) : digest = hash_relevant(text, q)

\* A cycle has hashed a text that matches some but not all of the keywords.
C15_Witness ==
    /\ pc = "compare"
    /\ matches # {}
    /\ matches # keywords_set
    /\ digest # None

\* C16: once a cycle without a match or an excepting cycle has ended after
\* a notified cycle, last_digest is still that cycle's digest d; a later
\* cycle that computes d again skips, and a cycle notifies only for a digest
\* other than d.
C16_IdleCyclesKeepBaseline ==
    intervened
    => /\ last_digest # None
       /\ last_digest = returned_digest
       /\ branch = "SKIP" => digest = returned_digest
       /\ branch = "NOTIFY" => digest # returned_digest

\* After a notified cycle and then a cycle without a match or with an
\* exception, a cycle has found the notified digest again and skipped.
C16_Witness ==
    /\ pc = "sleep"
    /\ intervened
    /\ branch = "SKIP"
    /\ digest = last_digest

====
